---------------------------- MODULE Spec2Model ----------------------------
(***************************************************************************)
(* Prompt hub: the prompt / vote synchronisation layer (supabaseService)   *)
(* and the page handlers that call it (pages/Index.tsx), over a store with *)
(* three tables (profiles, prompts, votes) and row-level policies.         *)
(*                                                                         *)
(* Every `await` of a service function is one request to the store.  A     *)
(* request is executed by the store atomically; the client code between    *)
(* two awaits runs without interruption (single-threaded event loop).  So  *)
(* one action = the store executes the pending request of a call and the   *)
(* caller handles the response up to its next request.                     *)
(***************************************************************************)
EXTENDS Integers, FiniteSets, Sequences, TLC

(***************************************************************************)
(* Bounds of the model.                                                    *)
(***************************************************************************)
\* number of votesService.vote calls that may be in flight at once
MaxCalls == 2
\* cap on a stored counter (increments beyond it are not taken)
MaxCount == 2

Calls == 1..MaxCalls

\* profiles: two ordinary users and one administrator
UserIds == {"u1", "u2"}
AdminIds == {"adm"}
ProfileIds == UserIds \cup AdminIds
PromptIds == {"p1"}
\* ids of prompts created while the model runs (Date.now() strings, store keys)
NewPromptIds == {"n1"}
\* every id, most recently created first
CreationOrder == <<"n1", "p1">>
VoteTypes == {"up", "down"}

\* JavaScript null / undefined
NULL == "null"
UNDEFINED == "undefined"

VARIABLES
  votes,      \* table votes: set of rows [user_id, prompt_id, vote_type, id]
  prompts,    \* table prompts: id -> [title, description, content, category,
              \*   upvotes, downvotes, published, author_id]
  calls,      \* the votesService.vote calls: slot -> frame of the async function
  rt,         \* observer of a slot's current call window (not program state)
  \* the page (pages/Index.tsx), one browser session
  useSupabase,      \* isSupabaseConfigured(): Supabase mode, else mock mode
  currentUser,      \* useState<CurrentUser | null>
  uiPrompts,        \* useState<Prompt[]>: the displayed list
  uiCategories,     \* useState<Category[]>: the count shown for 'all'
  showAddDialog,    \* useState(false): the add-prompt dialog is open
  al,               \* the auth listener: its pending event and its reload
  selectedPrompt,   \* useState<Prompt | null>: the detail dialog
  showLoginDialog,  \* useState(false)
  toast,            \* the last toast shown: its message and the handler showing it
  isLoadingRef,     \* useRef(false): the shared loading guard
  hv,               \* the handleVote invocations: slot -> frame
  ha,               \* the handleAddPrompt invocation in flight
  filterState,      \* activeCategory, searchQuery, pendingFilterRef and the load
                    \*   the filter effect has in flight
  \* promptsService calls that write (updatePrompt, togglePublished)
  ops,        \* slot -> frame of the async function
  seen        \* observer: the row as it was when the slot's call began

storeVars == <<votes, prompts>>
voteVars == <<calls, rt>>
uiVars == <<useSupabase, currentUser, uiPrompts, uiCategories, showAddDialog, al,
            selectedPrompt, showLoginDialog,
            toast, isLoadingRef, hv, ha, filterState>>
opsVars == <<ops, seen>>
vars == <<votes, prompts, calls, rt, uiVars, opsVars>>

(***************************************************************************)
(* The store: tables and constraints.                                      *)
(***************************************************************************)
\* profiles.role
Role(u) == IF u \in AdminIds THEN "admin" ELSE "user"

\* rows of votes matched by .eq('user_id', u).eq('prompt_id', p)
VoteRows(u, p) == {r \in votes : r.user_id = u /\ r.prompt_id = p}

\* a fresh primary key for a votes row; keys are numbered within the pair, the
\* first row of a pair being 1
FreshVoteId(u, p) ==
  CHOOSE i \in 1..(Cardinality(VoteRows(u, p)) + 1) : \A r \in VoteRows(u, p) : r.id # i

\* the uniqueness constraint on votes (user_id, prompt_id): an insert of a
\* second row for the pair is rejected (the "409 conflict")
UniqueViolationOff(u, p) == FALSE
UniqueViolation(u, p) == VoteRows(u, p) # {}

\* counters of a prompt row as the select('upvotes, downvotes').single() returns
\* them; no row: data is null
NoCounts == [found |-> FALSE, upvotes |-> 0, downvotes |-> 0]
SelectCounts(p) ==
  IF p \in DOMAIN prompts
    THEN [found |-> TRUE, upvotes |-> prompts[p].upvotes, downvotes |-> prompts[p].downvotes]
    ELSE NoCounts

Max0(n) == IF n < 0 THEN 0 ELSE n

(***************************************************************************)
(* votesService.vote: the counter arithmetic of its three branches.        *)
(***************************************************************************)
\* toggle off: decrement the counter of the removed vote, clamped at zero
ToggleOffCountsUnclamped(existing, prompt) ==
  [upvotes   |-> IF existing = "up" THEN prompt.upvotes - 1 ELSE prompt.upvotes,
   downvotes |-> IF existing = "down" THEN prompt.downvotes - 1 ELSE prompt.downvotes]
ToggleOffCountsNoDecrement(existing, prompt) ==
  [upvotes |-> prompt.upvotes, downvotes |-> prompt.downvotes]
ToggleOffCounts(existing, prompt) ==
  [upvotes   |-> IF existing = "up" THEN Max0(prompt.upvotes - 1) ELSE prompt.upvotes,
   downvotes |-> IF existing = "down" THEN Max0(prompt.downvotes - 1) ELSE prompt.downvotes]

\* switch: the new type's counter + 1, the other one - 1 clamped at zero
SwitchCountsNoDecrement(voteType, prompt) ==
  [upvotes   |-> IF voteType = "up" THEN prompt.upvotes + 1 ELSE prompt.upvotes,
   downvotes |-> IF voteType = "down" THEN prompt.downvotes + 1 ELSE prompt.downvotes]
SwitchCounts(voteType, prompt) ==
  [upvotes   |-> IF voteType = "up" THEN prompt.upvotes + 1 ELSE Max0(prompt.upvotes - 1),
   downvotes |-> IF voteType = "down" THEN prompt.downvotes + 1 ELSE Max0(prompt.downvotes - 1)]

\* new vote: the new type's counter + 1
InsertCounts(voteType, prompt) ==
  [upvotes   |-> IF voteType = "up" THEN prompt.upvotes + 1 ELSE prompt.upvotes,
   downvotes |-> IF voteType = "down" THEN prompt.downvotes + 1 ELSE prompt.downvotes]

\* the branch of vote a frame is in, from what its existence check returned
Branch(f) ==
  IF f.existingVote = NULL THEN "insert"
  ELSE IF f.existingVote = f.voteType THEN "toggle" ELSE "switch"

\* the counters the frame writes back
NewCounts(f) ==
  CASE Branch(f) = "toggle" -> ToggleOffCounts(f.existingVote, f.prompt)
    [] Branch(f) = "switch" -> SwitchCounts(f.voteType, f.prompt)
    [] OTHER -> InsertCounts(f.voteType, f.prompt)

(***************************************************************************)
(* Frames of votesService.vote.  pc names the request the call is waiting  *)
(* for; reqs is the set of requests it has issued to the votes table.      *)
(***************************************************************************)
IdleFrame ==
  [pc |-> "idle", userId |-> "u1", promptId |-> "p1", voteType |-> "up",
   existingVote |-> NULL, prompt |-> NoCounts, reqs |-> {}]

InFlight(c) == calls[c].pc \notin {"idle", "done", "error"}

\* observer: the window of calls a slot is in.  round 1: a call whose start
\* recorded the counters (base) and the caller's vote (held); round 2: the
\* next call of the slot with the same arguments, no other call having taken
\* a step since the window opened.  round 0: nothing observed.
NoWindow == [round |-> 0, base |-> [upvotes |-> 0, downvotes |-> 0], held |-> NULL]

HeldVote(u, p) ==
  IF VoteRows(u, p) = {} THEN NULL ELSE (CHOOSE r \in VoteRows(u, p) : TRUE).vote_type

\* a step of slot c closes every other slot's window
Observe(c, w) == [d \in Calls |-> IF d = c THEN w ELSE NoWindow]

\* vote(promptId, voteType, userId) is called: the frame of the call, its
\* existence check issued
StartVote(c, u, p, t) ==
  /\ ~InFlight(c)
  /\ calls' = [calls EXCEPT ![c] =
       [IdleFrame EXCEPT !.pc = "check", !.userId = u, !.promptId = p, !.voteType = t]]
  /\ rt' = Observe(c,
       IF /\ rt[c].round = 1 /\ calls[c].pc = "done"
          /\ calls[c].userId = u /\ calls[c].promptId = p /\ calls[c].voteType = t
         THEN [rt[c] EXCEPT !.round = 2]
         ELSE [round |-> 1,
               base |-> [upvotes |-> SelectCounts(p).upvotes,
                         downvotes |-> SelectCounts(p).downvotes],
               held |-> HeldVote(u, p)])

VoteCall(c, u, p, t) ==
  /\ StartVote(c, u, p, t)
  /\ UNCHANGED <<votes, prompts, uiVars, opsVars>>

\* select * from votes where user_id, prompt_id .maybeSingle(): one row is the
\* data; none, or several (PGRST116, which vote lets pass), leave it null
VoteCheckExisting(c) ==
  LET f == calls[c]
      rows == VoteRows(f.userId, f.promptId)
      existing == IF Cardinality(rows) = 1
                    THEN (CHOOSE r \in rows : TRUE).vote_type ELSE NULL
      g == [f EXCEPT !.existingVote = existing]
  IN /\ f.pc = "check"
     /\ calls' = [calls EXCEPT ![c] =
          [g EXCEPT !.pc = CASE Branch(g) = "toggle" -> "delete"
                            [] Branch(g) = "switch" -> "updateVote"
                            [] OTHER -> "insert"]]
     /\ rt' = Observe(c, rt[c])
     /\ UNCHANGED <<votes, prompts, uiVars, opsVars>>

\* delete from votes where user_id, prompt_id
DeleteVotes(u, p) == votes \ VoteRows(u, p)

\* update votes set vote_type where user_id, prompt_id: the row stays, retyped
UpdateVoteTypeDropsRow(u, p, t) == votes \ VoteRows(u, p)
UpdateVoteType(u, p, t) ==
  {IF r \in VoteRows(u, p) THEN [r EXCEPT !.vote_type = t] ELSE r : r \in votes}

\* insert into votes (user_id, prompt_id, vote_type)
InsertVote(u, p, t) ==
  votes \cup {[id |-> FreshVoteId(u, p), user_id |-> u, prompt_id |-> p, vote_type |-> t]}

\* toggle off, first request: the row is deleted, the counters are asked for
VoteDeleteRow(c) ==
  LET f == calls[c]
  IN /\ f.pc = "delete"
     /\ votes' = DeleteVotes(f.userId, f.promptId)
     /\ calls' = [calls EXCEPT ![c] =
          [f EXCEPT !.pc = "readCounts", !.reqs = @ \cup {"delete"}]]
     /\ rt' = Observe(c, rt[c])
     /\ UNCHANGED <<prompts, uiVars, opsVars>>

\* switch, first request: the existing row is retyped in place
VoteUpdateRow(c) ==
  LET f == calls[c]
  IN /\ f.pc = "updateVote"
     /\ votes' = UpdateVoteType(f.userId, f.promptId, f.voteType)
     /\ calls' = [calls EXCEPT ![c] =
          [f EXCEPT !.pc = "readCounts", !.reqs = @ \cup {"update"}]]
     /\ rt' = Observe(c, rt[c])
     /\ UNCHANGED <<prompts, uiVars, opsVars>>

\* new vote, first request: the insert; the store rejects it when the pair
\* already has a row or the prompt is gone, and vote throws insertError
VoteInsertRow(c) ==
  LET f == calls[c]
      rejected == UniqueViolation(f.userId, f.promptId) \/ f.promptId \notin DOMAIN prompts
  IN /\ f.pc = "insert"
     /\ votes' = IF rejected THEN votes ELSE InsertVote(f.userId, f.promptId, f.voteType)
     /\ calls' = [calls EXCEPT ![c] =
          [f EXCEPT !.pc = IF rejected THEN "error" ELSE "readCounts",
                    !.reqs = @ \cup {"insert"}]]
     /\ rt' = Observe(c, rt[c])
     /\ UNCHANGED <<prompts, uiVars, opsVars>>

\* select upvotes, downvotes from prompts where id .single(); vote returns
\* without writing when no row came back
VoteReadCounts(c) ==
  LET f == calls[c]
      data == SelectCounts(f.promptId)
  IN /\ f.pc = "readCounts"
     /\ calls' = [calls EXCEPT ![c] =
          IF data.found THEN [f EXCEPT !.prompt = data, !.pc = "writeCounts"]
                        ELSE [f EXCEPT !.pc = "done"]]
     /\ rt' = Observe(c, rt[c])
     /\ UNCHANGED <<votes, prompts, uiVars, opsVars>>

\* update prompts set upvotes, downvotes where id: the counters computed from
\* the values read one request earlier overwrite the stored ones
VoteWriteCounts(c) ==
  LET f == calls[c]
      n == NewCounts(f)
  IN /\ f.pc = "writeCounts"
     /\ n.upvotes <= MaxCount /\ n.downvotes <= MaxCount
     /\ prompts' = [p \in DOMAIN prompts |->
          IF p = f.promptId
            THEN [prompts[p] EXCEPT !.upvotes = n.upvotes, !.downvotes = n.downvotes]
            ELSE prompts[p]]
     /\ calls' = [calls EXCEPT ![c] = [f EXCEPT !.pc = "done", !.prompt = NoCounts]]
     /\ rt' = Observe(c, rt[c])
     /\ UNCHANGED <<votes, uiVars, opsVars>>

\* the page before anything is shown or asked for
NoUser == [signedIn |-> FALSE, id |-> UNDEFINED]
NoPrompt == [id |-> NULL, upvotes |-> 0, downvotes |-> 0, userVote |-> NULL]
IdleVoteHandler ==
  [pc |-> "idle", id |-> "p1", vote |-> "up", user |-> NoUser, selected |-> NULL,
   data |-> <<>>]
IdleAddHandler == [pc |-> "idle", id |-> NULL, user |-> NoUser]
IdleListener == [pc |-> "idle", user |-> NoUser]
NoToast == [msg |-> "none", by |-> "none"]
\* useState("all"), useState(""), pendingFilterRef after the mount effect, no
\* load of the filter effect in flight
IdleLoad == [pc |-> "idle", category |-> "all", search |-> <<>>, user |-> NoUser, data |-> <<>>]
NoFilter ==
  [activeCategory |-> "all", searchQuery |-> <<>>,
   pendingFilterRef |-> [category |-> "all", search |-> <<>>], load |-> IdleLoad]
IdleOp ==
  [pc |-> "idle", fn |-> "updatePrompt", caller |-> "u1",
   input |-> [id |-> "p1", title |-> "t0", published |-> TRUE]]
NotSeen == [solo |-> FALSE, title |-> "t0", published |-> TRUE, author_id |-> "u1"]

InitStore ==
  /\ votes = {}
  /\ prompts = [p \in PromptIds |->
       [title |-> "t0", description |-> "t0", content |-> "t0", category |-> "coding",
        upvotes |-> 0, downvotes |-> 0, published |-> TRUE, author_id |-> "u1"]]
  /\ calls = [c \in Calls |-> IdleFrame]
  /\ rt = [c \in Calls |-> NoWindow]

PageUnused ==
  /\ useSupabase = TRUE
  /\ currentUser = NoUser
  /\ uiPrompts = <<>>
  /\ uiCategories = 0
  /\ showAddDialog = FALSE
  /\ al = IdleListener
  /\ selectedPrompt = NoPrompt
  /\ showLoginDialog = FALSE
  /\ toast = NoToast
  /\ isLoadingRef = FALSE
  /\ hv = [h \in Calls |-> IdleVoteHandler]
  /\ ha = IdleAddHandler
  /\ filterState = NoFilter

OpsUnused ==
  /\ ops = [o \in Calls |-> IdleOp]
  /\ seen = [o \in Calls |-> NotSeen]

Init == InitStore /\ PageUnused /\ OpsUnused

\* the store answers the pending request of call c
VoteStep(c) ==
  \/ VoteCheckExisting(c)
  \/ VoteDeleteRow(c)
  \/ VoteUpdateRow(c)
  \/ VoteInsertRow(c)
  \/ VoteReadCounts(c)
  \/ VoteWriteCounts(c)

\* any signed-in user may call vote from any session; two sessions of one
\* user may overlap
Next ==
  \E c \in Calls :
    \/ \E u \in UserIds, p \in PromptIds, t \in VoteTypes : VoteCall(c, u, p, t)
    \/ VoteStep(c)

\* one session per user, each awaiting its call before the next one: the
\* calls that overlap are calls of different users
SessionUser(c) == IF c = 1 THEN "u1" ELSE IF c = 2 THEN "u2" ELSE "adm"

NextSessions ==
  \E c \in Calls :
    \/ \E p \in PromptIds, t \in VoteTypes : VoteCall(c, SessionUser(c), p, t)
    \/ VoteStep(c)

SpecSessions == Init /\ [][NextSessions]_vars

Spec == Init /\ [][Next]_vars

(***************************************************************************)
(* Properties of the vote counters and rows.                               *)
(***************************************************************************)
UpRows(p) == {r \in votes : r.prompt_id = p /\ r.vote_type = "up"}
DownRows(p) == {r \in votes : r.prompt_id = p /\ r.vote_type = "down"}

\* C1: in every reachable store state every prompt's upvotes and downvotes
\* are >= 0, whatever the interleaving of vote calls
C1_CountersNonNegative ==
  \A p \in DOMAIN prompts : prompts[p].upvotes >= 0 /\ prompts[p].downvotes >= 0

\* C1 witness: a clamped decrement has acted: a toggle-off call that read a
\* counter of 0 for the vote it removed has written the counters back
C1_Witness ==
  \E c \in Calls :
    /\ calls[c].pc = "done" /\ Branch(calls[c]) = "toggle" /\ calls[c].existingVote = "up"
    /\ rt[c].round = 1 /\ rt[c].held = "up" /\ rt[c].base.upvotes = 0
    /\ prompts[calls[c].promptId].upvotes = 0

\* C2: at most one vote row per (user, prompt) pair
C2_OneRowPerPair ==
  \A u \in ProfileIds, p \in PromptIds : Cardinality(VoteRows(u, p)) <= 1

\* C2 witness: two overlapping calls of one user on one prompt both found no
\* row; one has inserted, the other's insert was rejected
C2_Witness ==
  \E c, d \in Calls :
    /\ c # d /\ calls[c].userId = calls[d].userId /\ calls[c].promptId = calls[d].promptId
    /\ calls[c].existingVote = NULL /\ calls[d].existingVote = NULL
    /\ "insert" \in calls[c].reqs /\ calls[c].pc \in {"readCounts", "writeCounts", "done"}
    /\ "insert" \in calls[d].reqs /\ calls[d].pc = "error"

\* C3 as claimed: with no call in flight, the counters equal the row counts
C3_CountersMatchRows ==
  (\A c \in Calls : ~InFlight(c)) =>
    \A p \in DOMAIN prompts :
      /\ prompts[p].upvotes = Cardinality(UpRows(p))
      /\ prompts[p].downvotes = Cardinality(DownRows(p))

\* counters of prompt p as a record, for comparison with an observer's base
Counters(p) == [upvotes |-> prompts[p].upvotes, downvotes |-> prompts[p].downvotes]
CountOf(cnt, t) == IF t = "up" THEN cnt.upvotes ELSE cnt.downvotes

\* C4: a user holding no vote casts the same type twice, both calls
\* complete and no other call takes a step meanwhile: the user then has no
\* row on the prompt and the counters are those before the first call
C4_SameVoteTwiceRestores ==
  \A c \in Calls :
    (rt[c].round = 2 /\ rt[c].held = NULL /\ calls[c].pc = "done") =>
      /\ VoteRows(calls[c].userId, calls[c].promptId) = {}
      /\ Counters(calls[c].promptId) = rt[c].base

\* C4 witness: such a round trip has completed on a prompt whose upvotes
\* were 1 (another user's vote) before it
C4_Witness ==
  \E c \in Calls :
    /\ rt[c].round = 2 /\ rt[c].held = NULL /\ calls[c].pc = "done"
    /\ calls[c].voteType = "up" /\ Branch(calls[c]) = "toggle"
    /\ rt[c].base.upvotes = 1 /\ prompts[calls[c].promptId].upvotes = 1

\* C5 as claimed: a completed switch (the caller held the other type, no
\* other call was in flight or took a step meanwhile) moved exactly one unit
\* from the old type's counter to the new type's
C5_SwitchMovesOneUnit ==
  \A c \in Calls :
    (/\ rt[c].round = 1 /\ calls[c].pc = "done"
     /\ \A d \in Calls \ {c} : ~InFlight(d)
     /\ rt[c].held \in VoteTypes /\ rt[c].held # calls[c].voteType) =>
      /\ CountOf(Counters(calls[c].promptId), calls[c].voteType)
           = CountOf(rt[c].base, calls[c].voteType) + 1
      /\ CountOf(Counters(calls[c].promptId), rt[c].held)
           = CountOf(rt[c].base, rt[c].held) - 1

\* C6: a call on the switch branch issues one update to votes and neither a
\* delete nor an insert, and while no other call takes a step the caller's
\* row for the prompt is present at every step of the call
C6_SwitchIsOneUpdate ==
  \A c \in Calls :
    (Branch(calls[c]) = "switch" /\ calls[c].pc # "check") =>
      /\ calls[c].reqs \subseteq {"update"}
      /\ calls[c].pc # "updateVote" => calls[c].reqs = {"update"}
      /\ rt[c].round = 1 =>
           Cardinality(VoteRows(calls[c].userId, calls[c].promptId)) = 1

\* C6 witness: a switch call has retyped the caller's row and returned
C6_Witness ==
  \E c \in Calls :
    /\ Branch(calls[c]) = "switch" /\ calls[c].pc = "done" /\ rt[c].round = 1
    /\ calls[c].reqs = {"update"}
    /\ HeldVote(calls[c].userId, calls[c].promptId) = calls[c].voteType

(***************************************************************************)
(* promptsService.updatePrompt and togglePublished over the prompts table  *)
(* and its row-level policies.  The policies of one command are OR-ed.     *)
(***************************************************************************)
\* SELECT: "public read published", "author read own"
ReadPolicy(u, row) == row.published \/ row.author_id = u

\* UPDATE: "author update own prompt", "admin update any prompt"
UpdatePolicyAuthorOnly(u, row) == row.author_id = u
UpdatePolicy(u, row) == row.author_id = u \/ Role(u) = "admin"

\* the Prompt object getPromptById builds from the row: it copies id, title,
\* .., upvotes, downvotes and user_vote (no such column: undefined), and has
\* no published key
PromptObject(p) ==
  [id |-> p, title |-> prompts[p].title, upvotes |-> prompts[p].upvotes,
   downvotes |-> prompts[p].downvotes, userVote |-> UNDEFINED]

\* JavaScript !obj.key: a missing key reads undefined, and !undefined is true
NotField(obj, key) == IF key \in DOMAIN obj THEN ~obj[key] ELSE TRUE

OpInFlight(o) == ops[o].pc \notin {"idle", "done", "error"}

RowSeen(p) ==
  [solo |-> TRUE, title |-> prompts[p].title, published |-> prompts[p].published,
   author_id |-> prompts[p].author_id]

\* a step of slot o ends the undisturbed window of every other slot
ObserveOp(o, w) == [d \in Calls |-> IF d = o THEN w ELSE [seen[d] EXCEPT !.solo = FALSE]]

\* updatePrompt(input, userId) is called by a signed-in caller
UpdatePromptCall(o, input, u) ==
  /\ ~OpInFlight(o)
  /\ input.id \in DOMAIN prompts
  /\ ops' = [ops EXCEPT ![o] =
       [pc |-> "update", fn |-> "updatePrompt", caller |-> u, input |-> input]]
  /\ seen' = ObserveOp(o, RowSeen(input.id))
  /\ UNCHANGED <<storeVars, voteVars, uiVars>>

\* togglePublished(promptId, userId) is called: getPromptById is awaited
TogglePublishedCall(o, p, u) ==
  /\ ~OpInFlight(o)
  /\ p \in DOMAIN prompts
  /\ ops' = [ops EXCEPT ![o] =
       [pc |-> "get", fn |-> "togglePublished", caller |-> u,
        input |-> [id |-> p, title |-> "t0", published |-> TRUE]]]
  /\ seen' = ObserveOp(o, RowSeen(p))
  /\ UNCHANGED <<storeVars, voteVars, uiVars>>

\* getPromptById answers: null (no row the caller may read) makes
\* togglePublished throw 'Prompt not found'; else updatePrompt is called
\* with the object's fields and published: !prompt.published
TogglePublishedGet(o) ==
  LET f == ops[o]
      p == f.input.id
      readable == p \in DOMAIN prompts /\ ReadPolicy(f.caller, prompts[p])
  IN /\ f.pc = "get"
     /\ ops' = [ops EXCEPT ![o] =
          IF readable
            THEN [f EXCEPT !.pc = "update",
                           !.input = [id |-> p, title |-> PromptObject(p).title,
                                      published |-> NotField(PromptObject(p), "published")]]
            ELSE [f EXCEPT !.pc = "error"]]
     /\ seen' = ObserveOp(o, seen[o])
     /\ UNCHANGED <<storeVars, voteVars, uiVars>>

\* update prompts set title, .., published where id .select().single(): the
\* row is written when a policy lets the caller update it; otherwise no row
\* comes back, single() reports an error and updatePrompt throws
UpdatePromptRequest(o) ==
  LET f == ops[o]
      p == f.input.id
      allowed == p \in DOMAIN prompts /\ UpdatePolicy(f.caller, prompts[p])
  IN /\ f.pc = "update"
     /\ prompts' = IF allowed
          THEN [prompts EXCEPT ![p] =
                  [@ EXCEPT !.title = f.input.title, !.published = f.input.published]]
          ELSE prompts
     /\ ops' = [ops EXCEPT ![o] = [f EXCEPT !.pc = IF allowed THEN "done" ELSE "error"]]
     /\ seen' = ObserveOp(o, seen[o])
     /\ UNCHANGED <<votes, voteVars, uiVars>>

Titles == {"t0", "t1"}
UpdateInputs == [id : PromptIds, title : Titles, published : BOOLEAN]

InitPrompts ==
  /\ votes = {}
  /\ prompts \in [PromptIds ->
       [title : {"t0"}, description : {"t0"}, content : {"t0"}, category : {"coding"},
        upvotes : {0}, downvotes : {0}, published : BOOLEAN, author_id : UserIds]]
  /\ calls = [c \in Calls |-> IdleFrame]
  /\ rt = [c \in Calls |-> NoWindow]
  /\ PageUnused
  /\ OpsUnused

NextPrompts ==
  \E o \in Calls :
    \/ \E input \in UpdateInputs, u \in ProfileIds : UpdatePromptCall(o, input, u)
    \/ \E p \in PromptIds, u \in ProfileIds : TogglePublishedCall(o, p, u)
    \/ TogglePublishedGet(o)
    \/ UpdatePromptRequest(o)

SpecPrompts == InitPrompts /\ [][NextPrompts]_vars

\* C9 as claimed: after a successful togglePublished (no other call acting
\* meanwhile) the stored published value is the negation of the value
\* before the call
C9_TogglePublishedFlips ==
  \A o \in Calls :
    (ops[o].fn = "togglePublished" /\ ops[o].pc = "done" /\ seen[o].solo) =>
      prompts[ops[o].input.id].published = ~seen[o].published

\* C10: updatePrompt on a prompt authored by another user (no other call
\* acting meanwhile): an administrator's call succeeds and the row holds the
\* input; a caller who is neither author nor administrator gets an error and
\* the row is as it was
C10_UpdateByAdminOnly ==
  \A o \in Calls :
    (/\ ops[o].fn = "updatePrompt" /\ ops[o].pc \in {"done", "error"} /\ seen[o].solo
     /\ seen[o].author_id # ops[o].caller) =>
      LET row == prompts[ops[o].input.id]
      IN IF Role(ops[o].caller) = "admin"
           THEN /\ ops[o].pc = "done"
                /\ row.title = ops[o].input.title
                /\ row.published = ops[o].input.published
           ELSE /\ ops[o].pc = "error"
                /\ row.title = seen[o].title
                /\ row.published = seen[o].published

\* C10 witness: an administrator has changed the title and the publish flag
\* of another user's prompt, and another user's attempt has ended in an error
C10_Witness ==
  \E o, d \in Calls :
    /\ ops[o].fn = "updatePrompt" /\ ops[o].pc = "done" /\ seen[o].solo
    /\ Role(ops[o].caller) = "admin" /\ seen[o].author_id # ops[o].caller
    /\ prompts[ops[o].input.id].title # seen[o].title
    /\ prompts[ops[o].input.id].published # seen[o].published
    /\ ops[d].fn = "updatePrompt" /\ ops[d].pc = "error"
    /\ Role(ops[d].caller) = "user" /\ seen[d].author_id # ops[d].caller

(***************************************************************************)
(* The page: pages/Index.tsx.  A handler runs to its first await in one    *)
(* step; each await that resolves resumes it in another step.              *)
(***************************************************************************)
\* currentUser?.id is truthy
HasIdAdminOnly(user) ==
  user.signedIn /\ user.id # UNDEFINED /\ "role" \in DOMAIN user /\ user.role = "admin"
HasId(user) == user.signedIn /\ user.id # UNDEFINED

\* the test of handleVote's first branch: useSupabase && currentUser?.id
CanVoteInStoreNoSignIn == useSupabase
CanVoteInStore == useSupabase /\ HasId(currentUser)

\* the published rows, most recent first, as the list reads return them
PublishedIds ==
  LET Listed(p) == p \in DOMAIN prompts /\ prompts[p].published
  IN SelectSeq(CreationOrder, Listed)

\* getPublishedPrompts(): the anonymous read; userVote is null
getPublishedPrompts ==
  [k \in 1..Len(PublishedIds) |->
     [id |-> PublishedIds[k], upvotes |-> prompts[PublishedIds[k]].upvotes,
      downvotes |-> prompts[PublishedIds[k]].downvotes, userVote |-> NULL]]

\* getPublishedPromptsForUser(userId): [] without a userId; userVote is the
\* type of the first votes row embedded for the caller, or null
getPublishedPromptsForUser(userId) ==
  IF userId = UNDEFINED THEN <<>>
  ELSE [k \in 1..Len(PublishedIds) |->
     [id |-> PublishedIds[k], upvotes |-> prompts[PublishedIds[k]].upvotes,
      downvotes |-> prompts[PublishedIds[k]].downvotes,
      userVote |-> HeldVote(userId, PublishedIds[k])]]

\* categoriesService.getCategories(): the count of published rows
getCategories == Len(PublishedIds)

\* the read loadPromptsData('all', '') makes for the user its closure holds
LoadedPrompts(user) ==
  IF user.signedIn THEN getPublishedPromptsForUser(user.id) ELSE getPublishedPrompts

\* handleVote, Supabase mode: the local update of one displayed prompt
VoteLocalSupabase(p, vote) ==
  LET isTogglingOff == p.userVote = vote
      isChangingVote == p.userVote \in VoteTypes /\ p.userVote # vote
      dUp == IF isTogglingOff THEN (IF vote = "up" THEN -1 ELSE 0)
             ELSE IF isChangingVote
               THEN (IF p.userVote = "up" THEN -1 ELSE 0) + (IF vote = "up" THEN 1 ELSE 0)
               ELSE (IF vote = "up" THEN 1 ELSE 0)
      dDown == IF isTogglingOff THEN (IF vote = "down" THEN -1 ELSE 0)
               ELSE IF isChangingVote
                 THEN (IF p.userVote = "down" THEN -1 ELSE 0) + (IF vote = "down" THEN 1 ELSE 0)
                 ELSE (IF vote = "down" THEN 1 ELSE 0)
  IN [p EXCEPT !.upvotes = @ + dUp, !.downvotes = @ + dDown,
               !.userVote = IF isTogglingOff THEN NULL ELSE vote]

\* handleVote, mock mode: the local update of one displayed prompt
VoteLocalMock(p, vote) ==
  LET currentVote == p.userVote
      up1 == IF currentVote = "up" THEN p.upvotes - 1 ELSE p.upvotes
      down1 == IF currentVote = "down" THEN p.downvotes - 1 ELSE p.downvotes
  IN IF currentVote = vote
       THEN [p EXCEPT !.upvotes = up1, !.downvotes = down1, !.userVote = NULL]
       ELSE [p EXCEPT !.upvotes = IF vote = "up" THEN up1 + 1 ELSE up1,
                      !.downvotes = IF vote = "down" THEN down1 + 1 ELSE down1,
                      !.userVote = vote]

\* prev.map(p => p.id !== id ? p : f(p))
MapPrompt(list, id, vote, mock) ==
  [k \in 1..Len(list) |->
     IF list[k].id # id THEN list[k]
     ELSE IF mock THEN VoteLocalMock(list[k], vote) ELSE VoteLocalSupabase(list[k], vote)]

DisplayedIds == {uiPrompts[k].id : k \in 1..Len(uiPrompts)}

\* PromptDetail, AddPromptDialog and LoginDialog are modal <Dialog>s: while
\* one is open the page behind it takes no click
NoDialog == ~showLoginDialog /\ ~showAddDialog
PageClickable == NoDialog /\ selectedPrompt = NoPrompt

\* handleVote(id, vote), entered from a card or from the detail dialog
HandleVote(id, vote) ==
  /\ NoDialog
  /\ IF selectedPrompt = NoPrompt THEN id \in DisplayedIds ELSE selectedPrompt.id = id
  /\ IF CanVoteInStore
       THEN \E h \in Calls :
              /\ hv[h].pc = "idle"
              /\ StartVote(h, currentUser.id, id, vote)
              /\ hv' = [hv EXCEPT ![h] =
                   [pc |-> "vote", id |-> id, vote |-> vote, user |-> currentUser,
                    selected |-> selectedPrompt.id, data |-> <<>>]]
              /\ UNCHANGED <<uiPrompts, toast, showLoginDialog>>
     ELSE IF ~useSupabase
       THEN /\ uiPrompts' = MapPrompt(uiPrompts, id, vote, TRUE)
            /\ UNCHANGED <<calls, rt, hv, toast, showLoginDialog>>
       ELSE /\ toast' = [msg |-> "signin", by |-> "handleVote"]
            /\ showLoginDialog' = TRUE
            /\ UNCHANGED <<calls, rt, hv, uiPrompts>>
  /\ UNCHANGED <<storeVars, opsVars, useSupabase, currentUser, uiCategories, showAddDialog,
                 al, selectedPrompt, isLoadingRef, ha, filterState>>

\* where handleVote goes after its loadPromptsData has returned: to the
\* refresh of the detail dialog when its closure's selectedPrompt is the
\* prompt voted on (try block only), else it ends
AfterLoad(f, inTry) ==
  IF inTry /\ f.selected = f.id THEN [f EXCEPT !.pc = "selected"] ELSE IdleVoteHandler

voteRest == <<storeVars, opsVars, useSupabase, currentUser, uiCategories, showAddDialog, al,
              showLoginDialog, ha, filterState>>

\* votesService.vote has resolved: the list is updated locally, then
\* loadPromptsData(activeCategory, searchQuery) is awaited; it returns at
\* once when a load is in flight
HandleVoteVoted(h) ==
  /\ hv[h].pc = "vote" /\ calls[h].pc = "done"
  /\ uiPrompts' = MapPrompt(uiPrompts, hv[h].id, hv[h].vote, FALSE)
  /\ IF isLoadingRef
       THEN hv' = [hv EXCEPT ![h] = AfterLoad(hv[h], TRUE)] /\ UNCHANGED isLoadingRef
       ELSE hv' = [hv EXCEPT ![h] = [@ EXCEPT !.pc = "load"]] /\ isLoadingRef' = TRUE
  /\ calls' = [calls EXCEPT ![h] = IdleFrame]
  /\ rt' = Observe(h, NoWindow)
  /\ UNCHANGED <<voteRest, selectedPrompt, toast>>

\* votesService.vote has thrown: the error is shown and the list reloaded
HandleVoteFailed(h) ==
  /\ hv[h].pc = "vote" /\ calls[h].pc = "error"
  /\ toast' = [msg |-> "vote failed", by |-> "handleVote"]
  /\ IF isLoadingRef
       THEN hv' = [hv EXCEPT ![h] = IdleVoteHandler] /\ UNCHANGED isLoadingRef
       ELSE hv' = [hv EXCEPT ![h] = [@ EXCEPT !.pc = "loadErr"]] /\ isLoadingRef' = TRUE
  /\ calls' = [calls EXCEPT ![h] = IdleFrame]
  /\ rt' = Observe(h, NoWindow)
  /\ UNCHANGED <<voteRest, uiPrompts, selectedPrompt>>

\* the read of loadPromptsData answers: the list is replaced, the guard reset
HandleVoteLoaded(h) ==
  /\ hv[h].pc \in {"load", "loadErr"}
  /\ uiPrompts' = LoadedPrompts(hv[h].user)
  /\ isLoadingRef' = FALSE
  /\ hv' = [hv EXCEPT ![h] = AfterLoad(hv[h], hv[h].pc = "load")]
  /\ UNCHANGED <<voteRest, voteVars, selectedPrompt, toast>>

\* getPromptById answers: the detail dialog shows the object when there is one
HandleVoteSelected(h) ==
  LET id == hv[h].id
      readable == id \in DOMAIN prompts /\ ReadPolicy(hv[h].user.id, prompts[id])
      obj == PromptObject(id)
  IN /\ hv[h].pc = "selected"
     /\ selectedPrompt' =
          IF readable
            THEN [id |-> obj.id, upvotes |-> obj.upvotes, downvotes |-> obj.downvotes,
                  userVote |-> obj.userVote]
            ELSE selectedPrompt
     /\ hv' = [hv EXCEPT ![h] = IdleVoteHandler]
     /\ UNCHANGED <<voteRest, voteVars, uiPrompts, toast, isLoadingRef>>

\* the variables the dialogs and buttons of the page never touch
pageRest == <<storeVars, voteVars, opsVars, useSupabase, hv, ha, uiCategories, filterState>>

\* the "add prompt" button: the add dialog for a user, the login dialog else
AddButton ==
  /\ PageClickable
  /\ IF currentUser.signedIn
       THEN showAddDialog' = TRUE /\ UNCHANGED showLoginDialog
       ELSE showLoginDialog' = TRUE /\ UNCHANGED showAddDialog
  /\ UNCHANGED <<pageRest, currentUser, uiPrompts, al, selectedPrompt, toast, isLoadingRef>>

\* the login button, shown while currentUser is null
LoginButton ==
  /\ PageClickable /\ ~currentUser.signedIn
  /\ showLoginDialog' = TRUE
  /\ UNCHANGED <<pageRest, currentUser, uiPrompts, showAddDialog, al, selectedPrompt,
                 toast, isLoadingRef>>

\* LoginDialog's onClose without a login
CloseLoginDialog ==
  /\ showLoginDialog
  /\ showLoginDialog' = FALSE
  /\ UNCHANGED <<pageRest, currentUser, uiPrompts, showAddDialog, al, selectedPrompt,
                 toast, isLoadingRef>>

\* LoginDialog submits.  Supabase mode: authService.signIn resolves with the
\* profile, onLogin(user), and the store's auth event is on its way to the
\* listener.  Mock mode: onLogin({name, email}), a user without an id.
HandleLogin(u) ==
  /\ showLoginDialog
  /\ IF useSupabase
       THEN /\ al.pc = "idle"
            /\ currentUser' = [signedIn |-> TRUE, id |-> u]
            /\ al' = [pc |-> "event", user |-> [signedIn |-> TRUE, id |-> u]]
       ELSE /\ currentUser' = [signedIn |-> TRUE, id |-> UNDEFINED]
            /\ UNCHANGED al
  /\ toast' = [msg |-> "welcome", by |-> "LoginDialog"]
  /\ showLoginDialog' = FALSE
  /\ UNCHANGED <<pageRest, uiPrompts, showAddDialog, selectedPrompt, isLoadingRef>>

\* the callback given to authService.onAuthStateChange runs for a sign-in:
\* setCurrentUser(user), then loadPromptsData('all', '') of the render that
\* installed the listener
AuthListener ==
  /\ al.pc = "event"
  /\ currentUser' = al.user
  /\ IF isLoadingRef
       THEN al' = IdleListener /\ UNCHANGED isLoadingRef
       ELSE al' = [al EXCEPT !.pc = "load"] /\ isLoadingRef' = TRUE
  /\ UNCHANGED <<pageRest, uiPrompts, showAddDialog, selectedPrompt, showLoginDialog, toast>>

\* the listener's reload answers; currentUser was null in that render, so the
\* read was getPublishedPrompts()
AuthListenerLoaded ==
  /\ al.pc = "load"
  /\ uiPrompts' = getPublishedPrompts
  /\ isLoadingRef' = FALSE
  /\ al' = IdleListener
  /\ UNCHANGED <<pageRest, currentUser, showAddDialog, selectedPrompt, showLoginDialog, toast>>

\* the callback runs for an event without a session (the session ended):
\* setCurrentUser(null)
AuthListenerSignedOut ==
  /\ useSupabase /\ currentUser.signedIn /\ al.pc # "event"
  /\ currentUser' = NoUser
  /\ UNCHANGED <<pageRest, uiPrompts, showAddDialog, al, selectedPrompt, showLoginDialog,
                 toast, isLoadingRef>>

\* handleLogout: authService.signOut() in Supabase mode, setCurrentUser(null)
HandleLogout ==
  /\ PageClickable /\ currentUser.signedIn /\ al.pc # "event"
  /\ currentUser' = NoUser
  /\ UNCHANGED <<pageRest, uiPrompts, showAddDialog, al, selectedPrompt, showLoginDialog,
                 toast, isLoadingRef>>

\* a card is clicked: setSelectedPrompt(prompt)
SelectPrompt(k) ==
  /\ PageClickable /\ k \in 1..Len(uiPrompts)
  /\ selectedPrompt' = uiPrompts[k]
  /\ UNCHANGED <<pageRest, currentUser, uiPrompts, showAddDialog, al, showLoginDialog,
                 toast, isLoadingRef>>

\* PromptDetail's onClose: setSelectedPrompt(null)
ClosePrompt ==
  /\ NoDialog /\ selectedPrompt # NoPrompt
  /\ selectedPrompt' = NoPrompt
  /\ UNCHANGED <<pageRest, currentUser, uiPrompts, showAddDialog, al, showLoginDialog,
                 toast, isLoadingRef>>

\* the Prompt AddPromptDialog.handleSubmit builds
NewPrompt(n) == [id |-> n, upvotes |-> 0, downvotes |-> 0, userVote |-> NULL]

addRest == <<votes, voteVars, opsVars, useSupabase, hv, currentUser, al, selectedPrompt,
             filterState>>

\* AddPromptDialog submits: handleAddPrompt(newPrompt), then the dialog closes
HandleAddPrompt ==
  /\ showAddDialog /\ ha.pc = "idle"
  /\ showAddDialog' = FALSE
  /\ IF ~HasId(currentUser)
       THEN /\ toast' = [msg |-> "signin", by |-> "handleAddPrompt"]
            /\ showLoginDialog' = TRUE
            /\ UNCHANGED <<ha, uiPrompts>>
     ELSE IF useSupabase
       THEN /\ ha' = [pc |-> "create", id |-> NULL, user |-> currentUser]
            /\ UNCHANGED <<toast, showLoginDialog, uiPrompts>>
       ELSE /\ \E n \in NewPromptIds \ DisplayedIds :
                 uiPrompts' = <<NewPrompt(n)>> \o uiPrompts
            /\ UNCHANGED <<toast, showLoginDialog, ha>>
  /\ UNCHANGED <<addRest, prompts, uiCategories, isLoadingRef>>

\* createPrompt's insert answers with the new row; the handler shows the
\* success message and awaits loadPromptsData(activeCategory, searchQuery)
AddCreated ==
  /\ ha.pc = "create"
  /\ \E n \in NewPromptIds \ DOMAIN prompts :
       /\ prompts' = [p \in DOMAIN prompts \cup {n} |->
            IF p = n
              THEN [title |-> "t1", description |-> "t1", content |-> "t1",
                    category |-> "coding", upvotes |-> 0, downvotes |-> 0,
                    published |-> TRUE, author_id |-> ha.user.id]
              ELSE prompts[p]]
       /\ IF isLoadingRef
            THEN ha' = [ha EXCEPT !.pc = "cats", !.id = n] /\ UNCHANGED isLoadingRef
            ELSE ha' = [ha EXCEPT !.pc = "load", !.id = n] /\ isLoadingRef' = TRUE
  /\ toast' = [msg |-> "added", by |-> "handleAddPrompt"]
  /\ UNCHANGED <<addRest, uiPrompts, uiCategories, showAddDialog, showLoginDialog>>

\* the read of loadPromptsData answers
AddLoaded ==
  /\ ha.pc = "load"
  /\ uiPrompts' = LoadedPrompts(ha.user)
  /\ isLoadingRef' = FALSE
  /\ ha' = [ha EXCEPT !.pc = "cats"]
  /\ UNCHANGED <<addRest, prompts, uiCategories, showAddDialog, showLoginDialog, toast>>

\* categoriesService.getCategories() answers: setCategories(cats)
AddCategories ==
  /\ ha.pc = "cats"
  /\ uiCategories' = getCategories
  /\ ha' = IdleAddHandler
  /\ UNCHANGED <<addRest, prompts, uiPrompts, showAddDialog, showLoginDialog, toast,
                 isLoadingRef>>

\* initialPrompts of data/mockData: one prompt, nobody's vote recorded
MockPrompts ==
  {<<[id |-> "p1", upvotes |-> a, downvotes |-> b, userVote |-> NULL]>> :
     a \in 0..1, b \in 0..1}

\* the page after its mount effect: the mock data, or the first load of the
\* published prompts and the categories; nobody is signed in
InitUI ==
  /\ InitStore
  /\ OpsUnused
  /\ useSupabase \in BOOLEAN
  /\ currentUser = NoUser
  /\ IF useSupabase
       THEN uiPrompts = getPublishedPrompts /\ uiCategories = getCategories
       ELSE uiPrompts \in MockPrompts /\ uiCategories = 1
  /\ showAddDialog = FALSE
  /\ al = IdleListener
  /\ selectedPrompt = NoPrompt
  /\ showLoginDialog = FALSE
  /\ toast = NoToast
  /\ isLoadingRef = FALSE
  /\ hv = [h \in Calls |-> IdleVoteHandler]
  /\ ha = IdleAddHandler
  /\ filterState = NoFilter

\* the account whose credentials are typed into LoginDialog
Accounts == {"u1"}

\* a vote button is clicked once the session's previous vote action has ended
VoteClick(id, vote) ==
  /\ \A h \in Calls : hv[h].pc = "idle"
  /\ HandleVote(id, vote)

NextUI ==
  \/ \E id \in PromptIds, vote \in VoteTypes : VoteClick(id, vote)
  \/ \E h \in Calls :
       \/ VoteStep(h)
       \/ HandleVoteVoted(h)
       \/ HandleVoteLoaded(h)
       \/ HandleVoteSelected(h)
  \/ AddButton
  \/ LoginButton
  \/ CloseLoginDialog
  \/ \E u \in Accounts : HandleLogin(u)
  \/ AuthListener
  \/ AuthListenerLoaded
  \/ AuthListenerSignedOut
  \/ HandleLogout
  \/ \E k \in 1..Len(CreationOrder) : SelectPrompt(k)
  \/ ClosePrompt
  \/ HandleAddPrompt
  \/ AddCreated
  \/ AddLoaded
  \/ AddCategories

SpecUI == InitUI /\ [][NextUI]_vars

\* C7: in Supabase mode, with currentUser null or without an id, a handleVote
\* step issues no store request (no call frame is opened, the store is left
\* alone): it shows the 'please sign in' message and opens the login dialog.
C7_GuestVoteIssuesNoRequest ==
  [][\A id \in PromptIds, vote \in VoteTypes :
       (useSupabase /\ ~HasId(currentUser) /\ HandleVote(id, vote))
         => /\ UNCHANGED <<votes, prompts, calls, hv>>
            /\ toast' = [msg |-> "signin", by |-> "handleVote"]
            /\ showLoginDialog']_vars

\* a guest has voted in Supabase mode and was sent to the login dialog
C7_Witness ==
  /\ useSupabase /\ ~HasId(currentUser)
  /\ toast = [msg |-> "signin", by |-> "handleVote"]
  /\ showLoginDialog

\* C8: with nobody signed in, a handleVote or handleAddPrompt step changes
\* neither the store nor the displayed list, in Supabase mode and in mock mode.
C8_GuestActionChangesNothing ==
  [][\A id \in PromptIds, vote \in VoteTypes :
       (~currentUser.signedIn /\ (HandleVote(id, vote) \/ HandleAddPrompt))
         => UNCHANGED <<votes, prompts, uiPrompts>>]_vars

(***************************************************************************)
(* promptsService.deletePrompt.                                            *)
(***************************************************************************)
\* DELETE: "author delete own", "admin delete any"
DeletePolicy(u, row) == row.author_id = u \/ Role(u) = "admin"

\* the row as the call found it, or that there was none
RowSeenOrNone(p) ==
  IF p \in DOMAIN prompts THEN RowSeen(p)
  ELSE [solo |-> TRUE, title |-> "t0", published |-> FALSE, author_id |-> NULL]

\* deletePrompt(promptId) is called by a signed-in caller; the id may be one
\* no row has
DeletePromptCall(o, p, u) ==
  /\ ~OpInFlight(o)
  /\ ops' = [ops EXCEPT ![o] =
       [pc |-> "delete", fn |-> "deletePrompt", caller |-> u,
        input |-> [id |-> p, title |-> "t0", published |-> TRUE]]]
  /\ seen' = ObserveOp(o, RowSeenOrNone(p))
  /\ UNCHANGED <<storeVars, voteVars, uiVars>>

\* delete from prompts where id = promptId: the rows the policies let the
\* caller delete go (their votes with them), and the answer carries no error
\* however many rows went; `if (error) throw error` then lets the call resolve
DeletePromptRequest(o) ==
  LET f == ops[o]
      p == f.input.id
      allowed == p \in DOMAIN prompts /\ DeletePolicy(f.caller, prompts[p])
  IN /\ f.pc = "delete"
     /\ prompts' = IF allowed THEN [q \in DOMAIN prompts \ {p} |-> prompts[q]] ELSE prompts
     /\ votes' = IF allowed THEN {v \in votes : v.prompt_id # p} ELSE votes
     /\ ops' = [ops EXCEPT ![o] = [f EXCEPT !.pc = "done"]]
     /\ seen' = ObserveOp(o, seen[o])
     /\ UNCHANGED <<voteVars, uiVars>>

NextDelete ==
  \E o \in Calls :
    \/ \E p \in PromptIds \cup NewPromptIds, u \in ProfileIds : DeletePromptCall(o, p, u)
    \/ DeletePromptRequest(o)
    \/ \E input \in UpdateInputs, u \in ProfileIds : UpdatePromptCall(o, input, u)
    \/ UpdatePromptRequest(o)

SpecDelete == InitPrompts /\ [][NextDelete]_vars

\* C11 as claimed: a deletePrompt call that ended, with no other call acting
\* meanwhile, on an id without a row or on a row its caller may not delete,
\* has reported a failure, and the row (if any) is as it was.
C11_DeleteFailureReported ==
  \A o \in Calls :
    (/\ ops[o].fn = "deletePrompt" /\ ops[o].pc \in {"done", "error"}
     /\ seen[o].solo
     /\ \/ seen[o].author_id = NULL
        \/ ~DeletePolicy(ops[o].caller, seen[o]))
    => /\ ops[o].pc = "error"
       /\ (ops[o].input.id \in DOMAIN prompts) = (seen[o].author_id # NULL)

(***************************************************************************)
(* Text: a text column holds one of a few strings, named by a handle and   *)
(* spelled out here letter by letter.                                      *)
(***************************************************************************)
TextOf(t) ==
  CASE t = "" -> <<>>
    [] t = "t0" -> <<"E", "w">>
    [] t = "t1" -> <<"C", "o">>
    [] t = "t2" -> <<"c", "w">>
    [] OTHER -> <<"x">>

\* String.prototype.toLowerCase / the case folding of ilike, letter by letter
ToLower(ch) ==
  CASE ch = "C" -> "c" [] ch = "E" -> "e" [] ch = "O" -> "o" [] ch = "W" -> "w"
    [] OTHER -> ch

LowerSeq(s) == [k \in 1..Len(s) |-> ToLower(s[k])]

\* String.prototype.includes
Includes(s, q) ==
  \E k \in 0..(Len(s) - Len(q)) : \A j \in 1..Len(q) : s[k + j] = q[j]

\* SQL LIKE: % stands for any run of characters, _ for any one character
RECURSIVE Like(_, _)
Like(s, pat) ==
  IF pat = <<>> THEN s = <<>>
  ELSE IF Head(pat) = "%"
    THEN Like(s, Tail(pat)) \/ (s # <<>> /\ Like(Tail(s), pat))
  ELSE /\ s # <<>>
       /\ (Head(pat) = "_" \/ Head(pat) = Head(s))
       /\ Like(Tail(s), Tail(pat))

\* column.ilike.%query%
ILike(text, query) == Like(LowerSeq(text), <<"%">> \o LowerSeq(query) \o <<"%">>)

(***************************************************************************)
(* The listing reads of promptsService and createPrompt.                   *)
(***************************************************************************)
Categories == {"coding", "writing"}

IdsOf(list) == {list[k].id : k \in 1..Len(list)}

\* getPromptsByCategory(category): published rows, of the category unless
\* it is 'all'; userVote is p.user_vote, a column the row does not have
getPromptsByCategory(category) ==
  LET Keep(p) == /\ prompts[p].published
                 /\ (category # "all" => prompts[p].category = category)
      Listed(p) == p \in DOMAIN prompts /\ Keep(p)
      ids == SelectSeq(CreationOrder, Listed)
  IN [k \in 1..Len(ids) |->
        [id |-> ids[k], upvotes |-> prompts[ids[k]].upvotes,
         downvotes |-> prompts[ids[k]].downvotes, userVote |-> UNDEFINED]]

\* searchPrompts(query): the anonymous read of the published rows whose
\* title, description or content is ilike %query%; userVote is null
searchPrompts(query) ==
  LET Keep(p) == /\ prompts[p].published
                 /\ \/ ILike(TextOf(prompts[p].title), query)
                    \/ ILike(TextOf(prompts[p].description), query)
                    \/ ILike(TextOf(prompts[p].content), query)
      Listed(p) == p \in DOMAIN prompts /\ Keep(p)
      ids == SelectSeq(CreationOrder, Listed)
  IN [k \in 1..Len(ids) |->
        [id |-> ids[k], upvotes |-> prompts[ids[k]].upvotes,
         downvotes |-> prompts[ids[k]].downvotes, userVote |-> NULL]]

\* getUserPrompts(userId) in the session of caller: the rows authored by
\* userId that the caller may read; userVote is null
getUserPromptsPublishedOnly(userId, caller) ==
  LET Keep(p) == prompts[p].author_id = userId /\ prompts[p].published
      Listed(p) == p \in DOMAIN prompts /\ Keep(p)
      ids == SelectSeq(CreationOrder, Listed)
  IN [k \in 1..Len(ids) |->
        [id |-> ids[k], upvotes |-> prompts[ids[k]].upvotes,
         downvotes |-> prompts[ids[k]].downvotes, userVote |-> NULL]]
getUserPrompts(userId, caller) ==
  LET Keep(p) == prompts[p].author_id = userId /\ ReadPolicy(caller, prompts[p])
      Listed(p) == p \in DOMAIN prompts /\ Keep(p)
      ids == SelectSeq(CreationOrder, Listed)
  IN [k \in 1..Len(ids) |->
        [id |-> ids[k], upvotes |-> prompts[ids[k]].upvotes,
         downvotes |-> prompts[ids[k]].downvotes, userVote |-> NULL]]

\* createPrompt(input, authorId) is called in the session of authorId: the
\* insert is issued whatever the fields of input hold
CreatePromptCall(o, input, u) ==
  /\ ~OpInFlight(o)
  /\ ops' = [ops EXCEPT ![o] =
       [pc |-> "create", fn |-> "createPrompt", caller |-> u, input |-> input]]
  /\ seen' = ObserveOp(o, RowSeenOrNone(input.id))
  /\ UNCHANGED <<storeVars, voteVars, uiVars>>

\* insert into prompts .select().single(): the row is stored with zero
\* counters under a new id and comes back to its author
CreatePromptRequest(o) ==
  LET f == ops[o]
  IN /\ f.pc = "create"
     /\ \E n \in NewPromptIds \ DOMAIN prompts :
          /\ prompts' = [p \in DOMAIN prompts \cup {n} |->
               IF p = n
                 THEN [title |-> f.input.title, description |-> f.input.description,
                       content |-> f.input.content, category |-> f.input.category,
                       upvotes |-> 0, downvotes |-> 0, published |-> f.input.published,
                       author_id |-> f.caller]
                 ELSE prompts[p]]
          /\ ops' = [ops EXCEPT ![o] = [f EXCEPT !.pc = "done", !.input.id = n]]
     /\ seen' = ObserveOp(o, seen[o])
     /\ UNCHANGED <<votes, voteVars, uiVars>>

\* the inputs of createPrompt with every required field filled
CreateInputs ==
  [id : {NULL}, title : {"t1"}, description : {"t1"}, content : {"t1"},
   category : Categories, published : BOOLEAN]

Queries == {<<>>, <<"c">>, <<"C", "O">>, <<"w">>}

InitListing ==
  /\ votes = {}
  /\ prompts \in [PromptIds ->
       [title : {"t0"}, description : {"t0"}, content : {"t0"}, category : Categories,
        upvotes : {0}, downvotes : {0}, published : BOOLEAN, author_id : UserIds]]
  /\ calls = [c \in Calls |-> IdleFrame]
  /\ rt = [c \in Calls |-> NoWindow]
  /\ PageUnused
  /\ OpsUnused

NextListing ==
  \E o \in Calls :
    \/ \E input \in CreateInputs, u \in UserIds : CreatePromptCall(o, input, u)
    \/ CreatePromptRequest(o)
    \/ \E p \in PromptIds \cup NewPromptIds, u \in UserIds : TogglePublishedCall(o, p, u)
    \/ TogglePublishedGet(o)
    \/ UpdatePromptRequest(o)

SpecListing == InitListing /\ [][NextListing]_vars

ShownAtStart(c) ==
  [id |-> calls[c].promptId, upvotes |-> rt[c].base.upvotes,
   downvotes |-> rt[c].base.downvotes, userVote |-> rt[c].held]

\* the displayed prompt that agrees with the store as it is
ShownNow(u, p) ==
  [id |-> p, upvotes |-> Counters(p).upvotes, downvotes |-> Counters(p).downvotes,
   userVote |-> HeldVote(u, p)]

\* C13 as claimed: when a vote call has completed with no other call in
\* flight or acting meanwhile, handleVote's local update (Supabase mode and
\* mock mode) of a displayed prompt that agreed with the store before the
\* call gives the counters and the vote the store holds after it.
C13_LocalUpdateMatchesStore ==
  \A c \in Calls :
    (/\ rt[c].round = 1 /\ calls[c].pc = "done"
     /\ \A d \in Calls \ {c} : ~InFlight(d)) =>
      /\ VoteLocalSupabase(ShownAtStart(c), calls[c].voteType)
           = ShownNow(calls[c].userId, calls[c].promptId)
      /\ VoteLocalMock(ShownAtStart(c), calls[c].voteType)
           = ShownNow(calls[c].userId, calls[c].promptId)

(***************************************************************************)
(* handleVote with the read of loadPromptsData in flight: the store        *)
(* executes the read at one moment and its answer reaches the page at a    *)
(* later one.                                                              *)
(***************************************************************************)
\* the store executes the list read of handleVote's loadPromptsData
LoadExecuted(h) ==
  /\ hv[h].pc \in {"load", "loadErr"}
  /\ hv' = [hv EXCEPT ![h] =
       [@ EXCEPT !.pc = IF hv[h].pc = "load" THEN "loaded" ELSE "loadedErr",
                 !.data = LoadedPrompts(hv[h].user)]]
  /\ UNCHANGED <<voteRest, voteVars, uiPrompts, selectedPrompt, toast, isLoadingRef>>

\* the answer arrives: setPrompts(data), the guard is reset, handleVote goes on
LoadDelivered(h) ==
  /\ hv[h].pc \in {"loaded", "loadedErr"}
  /\ uiPrompts' = hv[h].data
  /\ isLoadingRef' = FALSE
  /\ hv' = [hv EXCEPT ![h] = AfterLoad([hv[h] EXCEPT !.data = <<>>], hv[h].pc = "loaded")]
  /\ UNCHANGED <<voteRest, voteVars, selectedPrompt, toast>>

\* the page of a signed-in user after its first loads
InitRefresh ==
  /\ InitStore
  /\ OpsUnused
  /\ useSupabase = TRUE
  /\ \E u \in Accounts :
       /\ currentUser = [signedIn |-> TRUE, id |-> u]
       /\ uiPrompts = getPublishedPromptsForUser(u)
  /\ uiCategories = getCategories
  /\ showAddDialog = FALSE
  /\ al = IdleListener
  /\ selectedPrompt = NoPrompt
  /\ showLoginDialog = FALSE
  /\ toast = NoToast
  /\ isLoadingRef = FALSE
  /\ hv = [h \in Calls |-> IdleVoteHandler]
  /\ ha = IdleAddHandler
  /\ filterState = NoFilter

NextRefresh ==
  \/ \E id \in PromptIds, vote \in VoteTypes : HandleVote(id, vote)
  \/ \E h \in Calls :
       \/ VoteStep(h)
       \/ HandleVoteVoted(h)
       \/ HandleVoteFailed(h)
       \/ LoadExecuted(h)
       \/ LoadDelivered(h)

SpecRefresh == InitRefresh /\ [][NextRefresh]_vars

\* nothing of the page is in flight
PageQuiet ==
  /\ \A h \in Calls : hv[h].pc = "idle" /\ ~InFlight(h)
  /\ ~isLoadingRef /\ al.pc = "idle" /\ ha.pc = "idle"

\* C14 as claimed, for a store only this session writes to: once the casts
\* have completed and every load has finished, the displayed counters of a
\* prompt are those of a read issued after the last store write, that is,
\* the counters the store holds.
C14_RefreshedAfterCast ==
  PageQuiet =>
    \A k \in 1..Len(uiPrompts) :
      /\ uiPrompts[k].upvotes = Counters(uiPrompts[k].id).upvotes
      /\ uiPrompts[k].downvotes = Counters(uiPrompts[k].id).downvotes

(***************************************************************************)
(* userVote on the reads that refresh a signed-in user's view.             *)
(***************************************************************************)
\* the vote a Prompt object shows: undefined and null both show none
VoteShown(obj) == IF obj.userVote \in VoteTypes THEN obj.userVote ELSE NULL

\* C15 as claimed: at every store state, each read that refreshes the view of
\* a signed-in user u gives, for each prompt it returns, the type of u's vote
\* row on the prompt, and no vote when u holds none.
C15_ReadsCarryUserVote ==
  \A u \in UserIds :
    /\ \A p \in DOMAIN prompts :
         ReadPolicy(u, prompts[p]) => VoteShown(PromptObject(p)) = HeldVote(u, p)
    /\ \A k \in 1..Len(getPublishedPromptsForUser(u)) :
         VoteShown(getPublishedPromptsForUser(u)[k])
           = HeldVote(u, getPublishedPromptsForUser(u)[k].id)
    /\ \A k \in 1..Len(getPromptsByCategory("all")) :
         VoteShown(getPromptsByCategory("all")[k])
           = HeldVote(u, getPromptsByCategory("all")[k].id)
    /\ \A q \in Queries : \A k \in 1..Len(searchPrompts(q)) :
         VoteShown(searchPrompts(q)[k]) = HeldVote(u, searchPrompts(q)[k].id)

\* C16 as claimed: of one session (the calls of the page share its user), at
\* most one votesService.vote call on a prompt is in flight at any time.
C16_OneVoteInFlightPerPrompt ==
  \A h, g \in Calls :
    (h # g /\ InFlight(h) /\ InFlight(g) /\ calls[h].userId = calls[g].userId) =>
      calls[h].promptId # calls[g].promptId

\* C17 as claimed: a vote call that issued its insert for a prompt that
\* exists does not end in an error (a rejected insert is made good by an
\* update of the row that is there).
C17_InsertConflictRecovered ==
  \A c \in Calls :
    (/\ "insert" \in calls[c].reqs /\ ~InFlight(c)
     /\ calls[c].promptId \in DOMAIN prompts) =>
      calls[c].pc = "done"

(***************************************************************************)
(* The store reads of the sync layer and what they do with the answer of   *)
(* the store.                                                              *)
(***************************************************************************)
ReadFns ==
  {"getPublishedPrompts", "getPublishedPromptsForUser", "getPromptsByCategory",
   "searchPrompts", "getUserPrompts", "getPromptById", "getCategories"}

\* the reads that pass an AbortController signal armed by a timer
TimedFns ==
  {"getPublishedPrompts", "getPublishedPromptsForUser", "searchPrompts", "getCategories"}

\* the argument each read is called with
ReadArgs(fn) ==
  CASE fn = "getPromptsByCategory" -> Categories \cup {"all"}
    [] fn = "searchPrompts" -> Queries
    [] fn = "getPromptById" -> PromptIds \cup NewPromptIds
    [] OTHER -> {NULL}

\* what the awaited query can give: rows, an error object with an access
\* code (42501, PGRST116), with status 401 or another one, or the abort of
\* the request by its timer
Answers(fn) ==
  {"data", "denied", "unauthorized", "failed"} \cup
    (IF fn \in TimedFns THEN {"aborted"} ELSE {})

\* the rows the query of fn selects in the session of u
ReadData(fn, arg, u) ==
  CASE fn = "getPublishedPrompts" -> getPublishedPrompts
    [] fn = "getPublishedPromptsForUser" -> getPublishedPromptsForUser(u)
    [] fn = "getPromptsByCategory" -> getPromptsByCategory(arg)
    [] fn = "searchPrompts" -> searchPrompts(arg)
    [] fn = "getUserPrompts" -> getUserPrompts(u, u)
    [] fn = "getPromptById" ->
         IF arg \in DOMAIN prompts /\ ReadPolicy(u, prompts[arg])
           THEN PromptObject(arg) ELSE NULL
    [] OTHER -> getCategories

\* the empty result of fn: [], null, or the categories with count 0
EmptyResult(fn) ==
  CASE fn = "getPromptById" -> NULL
    [] fn = "getCategories" -> 0
    [] OTHER -> <<>>

\* `if (error) throw error` outside a try block reaches the caller; the other
\* reads return the empty result from the error branch or the catch block
RaisesOnError(fn) == fn \in {"getPromptsByCategory", "getUserPrompts"}

\* fn(arg) is called in the session of u: the query is awaited
ReadCall(o, fn, arg, u) ==
  /\ ~OpInFlight(o)
  /\ ops' = [ops EXCEPT ![o] =
       [pc |-> "read", fn |-> fn, caller |-> u, input |-> arg,
        answer |-> NULL, result |-> NULL]]
  /\ UNCHANGED <<storeVars, voteVars, uiVars, seen>>

\* the query of slot o is answered and the read returns or throws
ReadAnswered(o, answer) ==
  LET f == ops[o]
  IN /\ f.pc = "read"
     /\ answer \in Answers(f.fn)
     /\ ops' = [ops EXCEPT ![o] =
          IF answer = "data"
            THEN [f EXCEPT !.pc = "done", !.answer = answer,
                           !.result = ReadData(f.fn, f.input, f.caller)]
          ELSE IF RaisesOnError(f.fn)
            THEN [f EXCEPT !.pc = "error", !.answer = answer]
            ELSE [f EXCEPT !.pc = "done", !.answer = answer,
                           !.result = EmptyResult(f.fn)]]
     /\ UNCHANGED <<storeVars, voteVars, uiVars, seen>>

AnswerKinds == {"data", "denied", "unauthorized", "failed", "aborted"}

NextReads ==
  \E o \in Calls :
    \/ \E fn \in ReadFns : \E arg \in ReadArgs(fn), u \in Accounts : ReadCall(o, fn, arg, u)
    \/ \E answer \in AnswerKinds : ReadAnswered(o, answer)

SpecReads == Init /\ [][NextReads]_vars

\* C18 as claimed: a read of the sync layer whose request timed out, was
\* aborted or got an error from the store has returned its empty result to
\* the caller and has raised nothing.
C18_ReadsNeverRaise ==
  \A o \in Calls :
    (/\ ops[o].fn \in ReadFns
     /\ ops[o].pc \in {"done", "error"}
     /\ ops[o].answer # "data") =>
      /\ ops[o].pc = "done"
      /\ ops[o].result = EmptyResult(ops[o].fn)

(***************************************************************************)
(* Creating a prompt with empty fields: the add-prompt dialog and          *)
(* promptsService.createPrompt.                                            *)
(***************************************************************************)
\* what the form fields and a CreatePromptInput can hold: "" or a text
FieldTexts == {"", "t1"}
AnyCreateInputs ==
  [id : {NULL}, title : FieldTexts, description : FieldTexts, content : FieldTexts,
   category : {"coding", ""}, published : BOOLEAN]

\* !title || !description || !content || !category
HasEmptyField(input) ==
  input.title = "" \/ input.description = "" \/ input.content = "" \/ input.category = ""

\* AddPromptDialog.handleSubmit with the form holding input, u signed in on
\* a page in Supabase mode: an empty field ends the handler before onAdd;
\* otherwise handleAddPrompt awaits createPrompt({.., published: true}, u)
HandleSubmit(o, input, u) ==
  /\ ~OpInFlight(o)
  /\ input.published
  /\ ops' = [ops EXCEPT ![o] =
       [pc |-> IF HasEmptyField(input) THEN "rejected" ELSE "create",
        fn |-> "handleSubmit", caller |-> u, input |-> input]]
  /\ seen' = ObserveOp(o, RowSeenOrNone(input.id))
  /\ UNCHANGED <<storeVars, voteVars, uiVars>>

NextCreate ==
  \E o \in Calls :
    \/ \E input \in AnyCreateInputs, u \in Accounts : HandleSubmit(o, input, u)
    \/ \E input \in AnyCreateInputs, u \in Accounts : CreatePromptCall(o, input, u)
    \/ CreatePromptRequest(o)

SpecCreate == Init /\ [][NextCreate]_vars

\* C19 as claimed: a creation whose title, description, content or category
\* is empty, from the dialog or by createPrompt called directly, is refused
\* before any insert is issued.
C19_EmptyFieldsRefused ==
  \A o \in Calls :
    (/\ ops[o].fn \in {"handleSubmit", "createPrompt"}
     /\ ops[o].pc # "idle"
     /\ HasEmptyField(ops[o].input)) =>
      ops[o].pc \in {"rejected", "error"}

(***************************************************************************)
(* Search: loadPromptsData(category, search) in Supabase mode and the      *)
(* client-side filter of the page in mock mode.                            *)
(***************************************************************************)
\* what can be typed into the search box
SearchQueries == Queries \cup {<<"_">>}

\* the Prompt objects the page holds in mock mode: the newest first, each
\* with the texts AddPromptDialog.handleSubmit copied from its form
MockShown ==
  LET Objs(i) == [id : {i}, title : {"t0", "t1"}, description : {"t0", "t1"},
                  content : {"t0", "t1"}, tags : {<<>>, <<"t2">>},
                  upvotes : {0}, downvotes : {0}, userVote : {NULL}]
  IN {<<a, b>> : a \in Objs("n1"), b \in Objs("p1")}

\* filteredPrompts with activeCategory 'all': in Supabase mode the prompts as
\* loaded; in mock mode those whose title, description or one of whose tags
\* includes the query, both in lower case
filteredPrompts(list, searchQuery) ==
  LET lq == LowerSeq(searchQuery)
      matchesSearch(prompt) ==
        \/ searchQuery = <<>>
        \/ Includes(LowerSeq(TextOf(prompt.title)), lq)
        \/ Includes(LowerSeq(TextOf(prompt.description)), lq)
        \/ \E k \in 1..Len(prompt.tags) : Includes(LowerSeq(TextOf(prompt.tags[k])), lq)
  IN IF useSupabase THEN list ELSE SelectSeq(list, matchesSearch)

\* the search text becomes q on the page; in Supabase mode the effect calls
\* loadPromptsData('all', q), which awaits searchPrompts(q) when q is not
\* empty and the published listing otherwise, and setPrompts(data); the page
\* then renders filteredPrompts
Search(o, q) ==
  LET data == IF ~useSupabase THEN uiPrompts
              ELSE IF q # <<>> THEN searchPrompts(q)
              ELSE LoadedPrompts(currentUser)
  IN /\ ~OpInFlight(o)
     /\ ~isLoadingRef
     /\ uiPrompts' = data
     /\ ops' = [ops EXCEPT ![o] =
          [pc |-> "done", fn |-> "search", caller |-> currentUser.id, input |-> q,
           result |-> IdsOf(filteredPrompts(data, q))]]
     /\ UNCHANGED <<storeVars, voteVars, seen, useSupabase, currentUser, uiCategories,
                    showAddDialog, al, selectedPrompt, showLoginDialog, toast,
                    isLoadingRef, hv, ha, filterState>>

\* the page after its mount effect, in either mode, with any texts in the
\* prompts
InitSearch ==
  /\ useSupabase \in BOOLEAN
  /\ votes = {}
  /\ prompts \in [PromptIds ->
       [title : {"t0", "t1"}, description : {"t0", "t1"}, content : {"t0", "t1"},
        category : {"coding"}, upvotes : {0}, downvotes : {0}, published : BOOLEAN,
        author_id : {"u1"}]]
  /\ (~useSupabase => \A p \in PromptIds : prompts[p].published /\ prompts[p].title = "t0"
                                             /\ prompts[p].description = "t0"
                                             /\ prompts[p].content = "t0")
  /\ calls = [c \in Calls |-> IdleFrame]
  /\ rt = [c \in Calls |-> NoWindow]
  /\ OpsUnused
  /\ currentUser = NoUser
  /\ IF useSupabase
       THEN uiPrompts = getPublishedPrompts /\ uiCategories = getCategories
       ELSE uiPrompts \in MockShown /\ uiCategories = 1
  /\ showAddDialog = FALSE
  /\ al = IdleListener
  /\ selectedPrompt = NoPrompt
  /\ showLoginDialog = FALSE
  /\ toast = NoToast
  /\ isLoadingRef = FALSE
  /\ hv = [h \in Calls |-> IdleVoteHandler]
  /\ ha = IdleAddHandler
  /\ filterState = NoFilter

NextSearch == \E o \in Calls, q \in SearchQueries : Search(o, q)

SpecSearch == InitSearch /\ [][NextSearch]_vars

\* C20 as claimed: after a search with text q the page shows exactly the
\* (published) prompts whose title, description or content contains q,
\* letter case ignored, in Supabase mode and in mock mode.
C20_SearchShowsMatches ==
  LET Contains(text, q) == Includes(LowerSeq(TextOf(text)), LowerSeq(q))
      HasText(obj, q) ==
        Contains(obj.title, q) \/ Contains(obj.description, q) \/ Contains(obj.content, q)
      Matching(q) ==
        IF useSupabase
          THEN {p \in DOMAIN prompts : prompts[p].published /\ HasText(prompts[p], q)}
          ELSE {uiPrompts[k].id : k \in {j \in 1..Len(uiPrompts) : HasText(uiPrompts[j], q)}}
  IN \A o \in Calls :
       (ops[o].fn = "search" /\ ops[o].pc = "done") =>
         ops[o].result = Matching(ops[o].input)

(***************************************************************************)
(* The role of the signed-in user on the client.                           *)
(***************************************************************************)
Roles == {"user", "admin"}

\* currentUser.role === 'admin': the Admin badge next to the user's name
AdminBadge(user) == user.signedIn /\ "role" \in DOMAIN user /\ user.role = "admin"

\* LoginDialog submits and authService.signIn (or signUp) resolves with
\* {id, .., role: profile?.role || 'user'}; the mock-mode dialog passes
\* {name, email}
HandleLoginRole(u, r) ==
  /\ showLoginDialog
  /\ IF useSupabase
       THEN /\ al.pc = "idle"
            /\ currentUser' = [signedIn |-> TRUE, id |-> u, role |-> r]
            /\ al' = [pc |-> "event", user |-> [signedIn |-> TRUE, id |-> u, role |-> r]]
       ELSE /\ r = "user"
            /\ currentUser' = [signedIn |-> TRUE, id |-> UNDEFINED]
            /\ UNCHANGED al
  /\ toast' = [msg |-> "welcome", by |-> "LoginDialog"]
  /\ showLoginDialog' = FALSE
  /\ UNCHANGED <<pageRest, uiPrompts, showAddDialog, selectedPrompt, isLoadingRef>>

NextRoles ==
  \/ \E id \in PromptIds, vote \in VoteTypes : VoteClick(id, vote)
  \/ \E h \in Calls :
       \/ VoteStep(h)
       \/ HandleVoteVoted(h)
       \/ HandleVoteLoaded(h)
  \/ AddButton
  \/ LoginButton
  \/ CloseLoginDialog
  \/ \E u \in Accounts, r \in Roles : HandleLoginRole(u, r)
  \/ AuthListener
  \/ AuthListenerLoaded
  \/ AuthListenerSignedOut
  \/ HandleLogout
  \/ HandleAddPrompt
  \/ AddCreated
  \/ AddLoaded
  \/ AddCategories

SpecRoles == InitUI /\ [][NextRoles]_vars

\* the user of a session like this one whose client-side role is r
RoleTwin(r) == [signedIn |-> currentUser.signedIn, id |-> currentUser.id, role |-> r]

\* C21: whether a handleVote or handleAddPrompt step issues a store mutation
\* (a vote call, a createPrompt insert), and for which user id, is what the
\* handler's test gives for the same session with any other client-side
\* role: the role of currentUser decides nothing but the Admin badge.
C21_RoleGatesNoWrite ==
  [][\A r \in Roles :
       /\ \A id \in PromptIds, vote \in VoteTypes :
            HandleVote(id, vote) =>
              /\ (calls' # calls) <=> (useSupabase /\ HasId(RoleTwin(r)))
              /\ \A h \in Calls :
                   calls'[h] # calls[h] => calls'[h].userId = RoleTwin(r).id
       /\ HandleAddPrompt =>
            /\ (ha'.pc = "create") <=> (useSupabase /\ HasId(RoleTwin(r)))
            /\ ha'.pc = "create" => ha'.user.id = RoleTwin(r).id]_vars

\* a user shown with the Admin badge has a vote call in flight after an
\* earlier store mutation from the page
C21_Witness ==
  /\ AdminBadge(currentUser)
  /\ \E h \in Calls : InFlight(h) /\ AdminBadge(hv[h].user)
  /\ prompts["p1"].upvotes + prompts["p1"].downvotes > 0

(***************************************************************************)
(* Vote calls that run one at a time.                                      *)
(***************************************************************************)
\* vote is called by any user once no other call is in flight
VoteCallAlone(c, u, p, t) ==
  /\ \A d \in Calls : ~InFlight(d)
  /\ VoteCall(c, u, p, t)

NextSequential ==
  \E c \in Calls :
    \/ \E u \in ProfileIds, p \in PromptIds, t \in VoteTypes : VoteCallAlone(c, u, p, t)
    \/ VoteStep(c)

SpecSequential == Init /\ [][NextSequential]_vars

LoadByFilter(category, search, user) ==
  IF search # <<>> THEN searchPrompts(search)
  ELSE IF category = "all" THEN LoadedPrompts(user)
  ELSE getPromptsByCategory(category)

CurrentFilter == [category |-> filterState.activeCategory, search |-> filterState.searchQuery]

\* setActiveCategory / setSearchQuery (CategoryFilter, SearchBar, a tag
\* click), then the filter effect: when the pair differs from
\* pendingFilterRef it calls loadPromptsData, which returns at once while
\* isLoadingRef is set and otherwise sets the guard, records the pair in
\* pendingFilterRef and awaits its read
SetFilter(category, search) ==
  LET new == [category |-> category, search |-> search]
      isDifferent == filterState.pendingFilterRef # new
  IN /\ PageClickable
     /\ new # CurrentFilter
     /\ category = filterState.activeCategory \/ search = filterState.searchQuery
     /\ IF useSupabase /\ isDifferent /\ ~isLoadingRef
          THEN /\ isLoadingRef' = TRUE
               /\ filterState' =
                    [activeCategory |-> category, searchQuery |-> search,
                     pendingFilterRef |-> new,
                     load |-> [pc |-> "read", category |-> category, search |-> search,
                               user |-> currentUser, data |-> <<>>]]
          ELSE /\ filterState' = [filterState EXCEPT !.activeCategory = category,
                                                     !.searchQuery = search]
               /\ UNCHANGED isLoadingRef
     /\ UNCHANGED <<storeVars, voteVars, opsVars, useSupabase, currentUser, uiPrompts,
                    uiCategories, showAddDialog, al, selectedPrompt, showLoginDialog,
                    toast, hv, ha>>

\* the read of the filter effect's loadPromptsData answers: setPrompts(data)
\* and, in the finally block, the guard is reset
FilterLoaded ==
  LET f == filterState.load
  IN /\ f.pc = "read"
     /\ uiPrompts' = LoadByFilter(f.category, f.search, f.user)
     /\ isLoadingRef' = FALSE
     /\ filterState' = [filterState EXCEPT !.load = IdleLoad]
     /\ UNCHANGED <<storeVars, voteVars, opsVars, useSupabase, currentUser, uiCategories,
                    showAddDialog, al, selectedPrompt, showLoginDialog, toast, hv, ha>>

\* the page in Supabase mode after its mount effect, a guest looking at it,
\* with prompts of any category, published or not
InitFilter ==
  /\ votes = {}
  /\ prompts \in [PromptIds \cup NewPromptIds ->
       [title : {"t0"}, description : {"t0"}, content : {"t0", "t1"}, category : Categories,
        upvotes : {0}, downvotes : {0}, published : BOOLEAN, author_id : {"u1"}]]
  /\ calls = [c \in Calls |-> IdleFrame]
  /\ rt = [c \in Calls |-> NoWindow]
  /\ OpsUnused
  /\ useSupabase = TRUE
  /\ currentUser = NoUser
  /\ uiPrompts = getPublishedPrompts
  /\ uiCategories = getCategories
  /\ showAddDialog = FALSE
  /\ al = IdleListener
  /\ selectedPrompt = NoPrompt
  /\ showLoginDialog = FALSE
  /\ toast = NoToast
  /\ isLoadingRef = FALSE
  /\ hv = [h \in Calls |-> IdleVoteHandler]
  /\ ha = IdleAddHandler
  /\ filterState = NoFilter

NextFilter ==
  \/ \E category \in Categories \cup {"all"}, search \in Queries : SetFilter(category, search)
  \/ FilterLoaded

SpecFilter == InitFilter /\ [][NextFilter]_vars

\* C23 as claimed: in Supabase mode, with a search text and a category other
\* than 'all' selected and the list loaded for that pair, every displayed
\* prompt is of the selected category and contains the search text in its
\* title, description or content.
C23_SearchKeepsCategory ==
  LET Contains(text, q) == Includes(LowerSeq(TextOf(text)), LowerSeq(q))
      q == filterState.searchQuery
  IN (/\ useSupabase /\ filterState.load.pc = "idle"
      /\ filterState.pendingFilterRef = CurrentFilter
      /\ q # <<>> /\ filterState.activeCategory # "all") =>
       \A k \in 1..Len(uiPrompts) :
         LET row == prompts[uiPrompts[k].id]
         IN /\ row.category = filterState.activeCategory
            /\ Contains(row.title, q) \/ Contains(row.description, q) \/ Contains(row.content, q)

\* C24 as claimed: in Supabase mode, with no load in flight, the displayed
\* list is what a load for the selected (category, search) pair returns.
C24_ListFollowsFilter ==
  (useSupabase /\ ~isLoadingRef /\ filterState.load.pc = "idle") =>
    /\ filterState.pendingFilterRef = CurrentFilter
    /\ uiPrompts = LoadByFilter(filterState.activeCategory, filterState.searchQuery,
                                currentUser)

(***************************************************************************)
(* Store requests of votesService.vote that are answered with an error.    *)
(***************************************************************************)
\* the request the call of slot c is waiting for comes back with an error
\* object, the store having executed nothing: vote throws checkError,
\* deleteError, updateVoteError, insertError or the error of the counter
\* update; a failed counter read leaves `prompt` null and vote returns
VoteRequestFails(c) ==
  LET f == calls[c]
  IN /\ InFlight(c)
     /\ calls' = [calls EXCEPT ![c] =
          [f EXCEPT !.pc = IF f.pc = "readCounts" THEN "done" ELSE "error"]]
     /\ rt' = Observe(c, rt[c])
     /\ UNCHANGED <<votes, prompts, uiVars, opsVars>>

NextVoteErrors ==
  \E c \in Calls :
    \/ \E p \in PromptIds, t \in VoteTypes : VoteCallAlone(c, SessionUser(c), p, t)
    \/ VoteStep(c)
    \/ VoteRequestFails(c)

SpecVoteErrors == Init /\ [][NextVoteErrors]_vars

\* C25 as claimed: when a vote call has raised an error (no other call
\* having run since it began), the caller's vote row and the prompt's
\* counters are those the store held when the call began.
C25_FailedVoteChangesNothing ==
  \A c \in Calls :
    (calls[c].pc = "error" /\ rt[c].round >= 1) =>
      /\ HeldVote(calls[c].userId, calls[c].promptId) = rt[c].held
      /\ Counters(calls[c].promptId) = rt[c].base

(***************************************************************************)
(* Sign-out while the profile lookup of a signed-in event is in flight.    *)
(***************************************************************************)
\* handleLogout while the listener's getCurrentUser() of the signed-in
\* event has not resolved: signOut() ends the session, the signed-out event
\* runs callback(null) and handleLogout does setCurrentUser(null); the
\* earlier lookup stays in flight
HandleLogoutRacing ==
  /\ PageClickable /\ useSupabase /\ currentUser.signedIn /\ al.pc = "event"
  /\ currentUser' = NoUser
  /\ al' = [al EXCEPT !.pc = "stale"]
  /\ UNCHANGED <<pageRest, uiPrompts, showAddDialog, selectedPrompt, showLoginDialog,
                 toast, isLoadingRef>>

\* the lookup started before the sign-out resolves.  It gives null when its
\* getSession() ran after the session ended, and the user object when it was
\* already past getSession() / getUser() and only its profiles read was
\* pending; the listener then runs setCurrentUser(user) and, for a user,
\* loadPromptsData('all', '')
AuthLookupStale(found) ==
  /\ al.pc = "stale"
  /\ IF found
       THEN /\ currentUser' = al.user
            /\ IF isLoadingRef
                 THEN al' = IdleListener /\ UNCHANGED isLoadingRef
                 ELSE al' = [al EXCEPT !.pc = "load"] /\ isLoadingRef' = TRUE
       ELSE /\ currentUser' = NoUser
            /\ al' = IdleListener
            /\ UNCHANGED isLoadingRef
  /\ UNCHANGED <<pageRest, uiPrompts, showAddDialog, selectedPrompt, showLoginDialog, toast>>

NextAuth ==
  \/ \E id \in PromptIds, vote \in VoteTypes : VoteClick(id, vote)
  \/ \E h \in Calls :
       \/ VoteStep(h)
       \/ HandleVoteVoted(h)
       \/ HandleVoteLoaded(h)
       \/ HandleVoteSelected(h)
  \/ AddButton
  \/ LoginButton
  \/ CloseLoginDialog
  \/ \E u \in Accounts : HandleLogin(u)
  \/ AuthListener
  \/ AuthListenerLoaded
  \/ AuthListenerSignedOut
  \/ HandleLogout
  \/ HandleLogoutRacing
  \/ \E found \in BOOLEAN : AuthLookupStale(found)
  \/ \E k \in 1..Len(CreationOrder) : SelectPrompt(k)
  \/ ClosePrompt

SpecAuth == InitUI /\ [][NextAuth]_vars

\* C26 as claimed: when the sign-out has completed and the callback of the
\* earlier signed-in event resolves after it, currentUser is null.
C26_SignedOutStaysNull ==
  [][(al.pc = "stale" /\ al'.pc # "stale") => currentUser' = NoUser]_vars

(***************************************************************************)
(* The counters the page displays.                                         *)
(***************************************************************************)
\* C27 as claimed: every displayed prompt, in the list and in the detail
\* dialog, shows upvotes >= 0 and downvotes >= 0.
C27_DisplayedCountersNonNegative ==
  /\ \A k \in 1..Len(uiPrompts) : uiPrompts[k].upvotes >= 0 /\ uiPrompts[k].downvotes >= 0
  /\ selectedPrompt.upvotes >= 0 /\ selectedPrompt.downvotes >= 0

\* C28 as claimed: while a user is shown as logged in, a submission of the
\* add-prompt form (all required fields filled) is not answered with 'please
\* sign in': the prompt is put into the list (mock mode) or its insert is
\* issued (Supabase mode).
C28_AddAcceptedWhenLoggedIn ==
  [][(currentUser.signedIn /\ HandleAddPrompt) =>
       /\ toast' # [msg |-> "signin", by |-> "handleAddPrompt"]
       /\ ~showLoginDialog'
       /\ IF useSupabase THEN ha'.pc = "create"
                         ELSE Len(uiPrompts') = Len(uiPrompts) + 1]_vars

\* no handler of the page is waiting for the store
PageIdle ==
  /\ \A h \in Calls : hv[h].pc = "idle" /\ ~InFlight(h)
  /\ ha.pc = "idle" /\ al.pc = "idle" /\ ~isLoadingRef

\* C29 as claimed: with the detail dialog open and no request in flight, the
\* dialog shows the counters and the userVote that the list shows for the
\* same prompt.
C29_DetailMatchesList ==
  (selectedPrompt # NoPrompt /\ PageIdle) =>
    \A k \in 1..Len(uiPrompts) :
      uiPrompts[k].id = selectedPrompt.id =>
        /\ selectedPrompt.upvotes = uiPrompts[k].upvotes
        /\ selectedPrompt.downvotes = uiPrompts[k].downvotes
        /\ selectedPrompt.userVote = uiPrompts[k].userVote

(***************************************************************************)
(* The shared loading guard isLoadingRef: loadData and loadPromptsData.     *)
(***************************************************************************)
\* how an awaited load ends: with rows; with the empty list a read returns
\* from its error, 401 or abort path; or by a throw, an abort or an unmounted
\* component, nothing being displayed
LoadOutcomes == {"data", "empty", "failed"}

\* loadData of the mount effect ends: setCategories / setPrompts with what
\* was read; finally resets the guard.  The list starts as, and after an
\* error stays, the bundled mock data, which hold no row of the store: the
\* empty list here
LoadDataEnds(outcome) ==
  LET f == filterState.load
  IN /\ f.pc = "mount"
     /\ uiPrompts' = IF outcome = "data" THEN getPublishedPrompts ELSE <<>>
     /\ uiCategories' = IF outcome = "data" THEN getCategories ELSE 0
     /\ isLoadingRef' = FALSE
     /\ filterState' = [filterState EXCEPT !.load = [IdleLoad EXCEPT !.pc = outcome]]
     /\ UNCHANGED <<storeVars, voteVars, opsVars, useSupabase, currentUser, showAddDialog,
                    al, selectedPrompt, showLoginDialog, toast, hv, ha>>

\* loadPromptsData with the guard reset at the end of the try block instead
\* of in finally: a throw leaves it set
FilterLoadEndsResetInTry(outcome) ==
  LET f == filterState.load
  IN /\ f.pc = "read"
     /\ uiPrompts' = CASE outcome = "data" -> LoadByFilter(f.category, f.search, f.user)
                       [] outcome = "empty" -> <<>>
                       [] OTHER -> uiPrompts
     /\ isLoadingRef' = (outcome = "failed")
     /\ filterState' = [filterState EXCEPT !.load = [IdleLoad EXCEPT !.pc = outcome]]
     /\ UNCHANGED <<storeVars, voteVars, opsVars, useSupabase, currentUser, uiCategories,
                    showAddDialog, al, selectedPrompt, showLoginDialog, toast, hv, ha>>

\* the read of the filter effect's loadPromptsData ends: setPrompts(data)
\* unless it threw or the component is unmounted; finally resets the guard
FilterLoadEnds(outcome) ==
  LET f == filterState.load
  IN /\ f.pc = "read"
     /\ uiPrompts' = CASE outcome = "data" -> LoadByFilter(f.category, f.search, f.user)
                       [] outcome = "empty" -> <<>>
                       [] OTHER -> uiPrompts
     /\ isLoadingRef' = FALSE
     /\ filterState' = [filterState EXCEPT !.load = [IdleLoad EXCEPT !.pc = outcome]]
     /\ UNCHANGED <<storeVars, voteVars, opsVars, useSupabase, currentUser, uiCategories,
                    showAddDialog, al, selectedPrompt, showLoginDialog, toast, hv, ha>>

\* the page in Supabase mode while loadData of the mount effect is awaiting
\* its two reads
InitLoads ==
  /\ InitStore
  /\ OpsUnused
  /\ useSupabase = TRUE
  /\ currentUser = NoUser
  /\ uiPrompts = <<>>
  /\ uiCategories = 0
  /\ showAddDialog = FALSE
  /\ al = IdleListener
  /\ selectedPrompt = NoPrompt
  /\ showLoginDialog = FALSE
  /\ toast = NoToast
  /\ isLoadingRef = TRUE
  /\ hv = [h \in Calls |-> IdleVoteHandler]
  /\ ha = IdleAddHandler
  /\ filterState = [NoFilter EXCEPT !.load = [IdleLoad EXCEPT !.pc = "mount"]]

\* a load is awaiting its read
LoadInFlight ==
  \/ filterState.load.pc \in {"mount", "read"}
  \/ al.pc = "load"

\* the steps in which an awaited load ends
LoadAnswers ==
  \/ \E outcome \in LoadOutcomes : LoadDataEnds(outcome)
  \/ \E outcome \in LoadOutcomes : FilterLoadEnds(outcome)
  \/ AuthListenerLoaded

NextLoads ==
  \/ \E outcome \in LoadOutcomes : LoadDataEnds(outcome)
  \/ \E outcome \in LoadOutcomes : FilterLoadEnds(outcome)
  \/ \E category \in {"all", "coding"}, search \in {<<>>, <<"c">>} : SetFilter(category, search)
  \/ LoginButton
  \/ CloseLoginDialog
  \/ \E u \in Accounts : HandleLogin(u)
  \/ AuthListener
  \/ AuthListenerLoaded
  \/ HandleLogout

\* every request is answered or ended by its timer
SpecLoads == InitLoads /\ [][NextLoads]_vars /\ WF_vars(LoadAnswers)

=============================================================================
